---- MODULE Spec2Model ----
(***************************************************************************)
(* Model of PyVCF_titv/titv.py: counting transitions and transversions of  *)
(* the SNP records of one or more VCF files.                               *)
(*                                                                         *)
(* The program is single threaded.  Its state is the three module-level    *)
(* counters (ti, tv, num_records), the locals of process_file (i, the      *)
(* reader position, the record in hand), the position of the for loop over *)
(* the file names, the text written to stdout, and the exception (if any)  *)
(* that ended the run.  One action per statement of the processing loop.   *)
(***************************************************************************)
EXTENDS Integers, Sequences, FiniteSets, TLC

\* ------------------------------------------------------------------ bounds
MaxFiles == 2       \* at most this many --file arguments
MaxAnyLen == 2      \* length of a file whose records are arbitrary
MaxSmallLimit == 2  \* small values of --nlimit run from -1 to this

\* ------------------------------------------------------- program constants
ReportEvery == 1000 \* titv.py:41, if i % 1000 == 0

\* Python's None and an int where either may stand: <<>> and <<n>>.
None == <<>>

Some(n) == <<n>>

\* No exception has been raised.
NoErr == "none"

\* ------------------------------------------------------------- the inputs
\* Allele symbols: the four bases and the ambiguity code N.
Symbols == {"A", "C", "G", "T", "N"}
Bases == {"A", "C", "G", "T"}

\* An allele is a non-empty string; single symbols and one two-base allele
\* (the deletion AT -> A) are enough to exercise every branch.
Alleles == {<<s>> : s \in Symbols} \cup {<<"A", "T">>}

\* A record as far as the program looks at it: REF and the first ALT.
Records == [REF : Alleles, ALT : Alleles]

Rec(r, a) == [REF |-> <<r>>, ALT |-> <<a>>]

NoRec == [REF |-> <<>>, ALT |-> <<>>]

\* An input file is described by the kind of its contents and its number of
\* records.  "any": every record is arbitrary; "alt": SNPs alternating
\* (A,G), (G,T); "ti": only the transition (A,G).
AnyFiles == {[kind |-> "any", len |-> n] : n \in 0..MaxAnyLen}

ScenarioFiles == {[kind |-> "alt", len |-> 600], [kind |-> "alt", len |-> 1000],
                  [kind |-> "ti", len |-> 999]}

Files == AnyFiles \cup ScenarioFiles

\* The records a file of this description can hold at position p (1-based).
RecordsAt(f, p) ==
    CASE f.kind = "any" -> Records
      [] f.kind = "alt" -> {IF p % 2 = 1 THEN Rec("A", "G") ELSE Rec("G", "T")}
      [] f.kind = "ti"  -> {Rec("A", "G")}

\* --nlimit: absent, or an integer (argparse type=int accepts any integer).
NLimits == {None} \cup {Some(n) : n \in (-1..MaxSmallLimit) \cup {601, 1000}}

FileLists == UNION {[1..n -> Files] : n \in 0..MaxFiles}

\* ------------------------------------------------------------------ state
VARIABLES
    filenames,    \* args.filenames: the ordered list of input files
    nlimit,       \* args.nlimit
    pc,           \* the statement about to run
    fidx,         \* position of the for loop over filenames (0: not started)
    ti, tv,       \* module-level counters
    num_records,  \* module-level counter
    i,            \* local of process_file
    pos,          \* records consumed from vcf_reader in this process_file
    rec,          \* the record returned by vcf_reader.next()
    out,          \* lines printed to stdout
    err,          \* the uncaught exception that ended the run, or NoErr
    base,         \* history: num_records on entry to process_file
    consumed      \* history: records returned by vcf_reader.next() in the run

vars == <<filenames, nlimit, pc, fidx, ti, tv, num_records, i, pos, rec, out,
          err, base, consumed>>

\* --------------------------------------------------- the record predicates
\* vcf.model._Record.is_snp: the alleles are single standard bases.
is_snp(r) ==
    /\ Len(r.REF) = 1
    /\ Len(r.ALT) = 1
    /\ r.REF[1] \in Bases
    /\ r.ALT[1] \in Bases

\* vcf.model._Record.is_transition: a purine<->purine or
\* pyrimidine<->pyrimidine SNP.
is_transition(r) ==
    /\ is_snp(r)
    /\ <<r.REF[1], r.ALT[1]>> \in {<<"A", "G">>, <<"G", "A">>, <<"C", "T">>, <<"T", "C">>}

\* account_rec_native without the is_snp test of line 16.
account_rec_native_NoSnpTest(r, t, v) ==
    IF is_transition(r) THEN [ti |-> t + 1, tv |-> v]
    ELSE [ti |-> t, tv |-> v + 1]

\* ------------------------------------------------------ account_rec_native
\* The counters after accounting record r, from counters t (ti) and v (tv).
account_rec_native(r, t, v) ==
    IF ~is_snp(r) THEN [ti |-> t, tv |-> v]
    ELSE IF is_transition(r) THEN [ti |-> t + 1, tv |-> v]
    ELSE [ti |-> t, tv |-> v + 1]

\* ------------------------------------------------------------ print_totals
\* A printed line.  ratio stands for float(ti) / float(tv), kept as the pair
\* <<numerator, denominator>>.
ProcessingLine(f) ==
    [kind |-> "processing", fname |-> f, i |-> 0, tot |-> 0, ti |-> 0, tv |-> 0, ratio |-> <<0, 1>>]

ProgressLine(n) ==
    [kind |-> "progress", fname |-> 0, i |-> n, tot |-> num_records, ti |-> ti, tv |-> tv, ratio |-> <<ti, tv>>]

FinalLine ==
    [kind |-> "final", fname |-> 0, i |-> 0, tot |-> num_records, ti |-> ti, tv |-> tv, ratio |-> <<ti, tv>>]

UsageLine ==
    [kind |-> "usage", fname |-> 0, i |-> 0, tot |-> 0, ti |-> 0, tv |-> 0, ratio |-> <<0, 1>>]

\* print_totals(n), continuing at statement cont.  float(ti) / float(tv)
\* raises ZeroDivisionError when tv = 0, before anything is printed; nothing
\* catches it.
print_totals(n, cont) ==
    IF tv = 0
    THEN /\ err' = "ZeroDivisionError"
         /\ pc' = "aborted"
         /\ out' = out
    ELSE /\ out' = Append(out, IF n = None THEN FinalLine ELSE ProgressLine(n[1]))
         /\ pc' = cont
         /\ err' = err

\* ------------------------------------------------------------------- Init
Init ==
    /\ filenames \in FileLists
    /\ nlimit \in NLimits
    /\ pc = "args"
    /\ fidx = 0
    /\ ti = 0
    /\ tv = 0
    /\ num_records = 0
    /\ i = 0
    /\ pos = 0
    /\ rec = NoRec
    /\ out = <<>>
    /\ err = NoErr
    /\ base = 0
    /\ consumed = 0

\* ---------------------------------------------------------------- actions
\* Lines 55-59: no --file argument is a usage error, exit(1).
ParseArgs ==
    /\ pc = "args"
    /\ IF Len(filenames) = 0
       THEN /\ out' = Append(out, UsageLine)
            /\ pc' = "exited"
            /\ err' = "SystemExit(1)"
       ELSE /\ pc' = "for"
            /\ UNCHANGED <<out, err>>
    /\ UNCHANGED <<filenames, nlimit, fidx, ti, tv, num_records, i, pos, rec, base, consumed>>

\* Line 62: the for loop takes the next file name, or falls through to the
\* final report.
ForNext ==
    /\ pc = "for"
    /\ IF fidx < Len(filenames)
       THEN /\ fidx' = fidx + 1
            /\ pc' = "open"
       ELSE /\ pc' = "final"
            /\ UNCHANGED fidx
    /\ UNCHANGED <<filenames, nlimit, ti, tv, num_records, i, pos, rec, out, err, base, consumed>>

\* Lines 34-37: announce the file, open it, make the reader, i = 0.
Open ==
    /\ pc = "open"
    /\ out' = Append(out, ProcessingLine(fidx))
    /\ i' = 0
    /\ pos' = 0
    /\ base' = num_records
    /\ pc' = "incr"
    /\ UNCHANGED <<filenames, nlimit, fidx, ti, tv, num_records, rec, err, consumed>>

\* Lines 39-40 without num_records += 1.
Incr_NoCount ==
    /\ pc = "incr"
    /\ num_records' = num_records
    /\ i' = i + 1
    /\ pc' = "check_report"
    /\ UNCHANGED <<filenames, nlimit, fidx, ti, tv, pos, rec, out, err, base, consumed>>

\* Lines 39-40: num_records += 1; i = i + 1.
Incr ==
    /\ pc = "incr"
    /\ num_records' = num_records + 1
    /\ i' = i + 1
    /\ pc' = "check_report"
    /\ UNCHANGED <<filenames, nlimit, fidx, ti, tv, pos, rec, out, err, base, consumed>>

\* Lines 41-42 testing the cumulative num_records in place of i.
CheckReport_Cumulative ==
    /\ pc = "check_report"
    /\ IF num_records % ReportEvery = 0
       THEN print_totals(Some(i), "check_limit")
       ELSE /\ pc' = "check_limit"
            /\ UNCHANGED <<out, err>>
    /\ UNCHANGED <<filenames, nlimit, fidx, ti, tv, num_records, i, pos, rec, base, consumed>>

\* Lines 41-42: if i % 1000 == 0: print_totals(i).
CheckReport ==
    /\ pc = "check_report"
    /\ IF i % ReportEvery = 0
       THEN print_totals(Some(i), "check_limit")
       ELSE /\ pc' = "check_limit"
            /\ UNCHANGED <<out, err>>
    /\ UNCHANGED <<filenames, nlimit, fidx, ti, tv, num_records, i, pos, rec, base, consumed>>

\* Lines 43-45 with i > nlimit in place of i >= nlimit.
CheckLimit_Late ==
    /\ pc = "check_limit"
    /\ IF nlimit # None /\ i > nlimit[1]
       THEN pc' = "for"
       ELSE pc' = "next"
    /\ UNCHANGED <<filenames, nlimit, fidx, ti, tv, num_records, i, pos, rec, out, err, base, consumed>>

\* Lines 43-45: if nlimit is not None and i >= nlimit: break.  The break
\* leaves the with block and process_file returns to the for loop.
CheckLimit ==
    /\ pc = "check_limit"
    /\ IF nlimit # None /\ i >= nlimit[1]
       THEN pc' = "for"
       ELSE pc' = "next"
    /\ UNCHANGED <<filenames, nlimit, fidx, ti, tv, num_records, i, pos, rec, out, err, base, consumed>>

\* Line 46: rec = vcf_reader.next().  At the end of the file next() raises
\* StopIteration; the while loop is not a for loop, so nothing catches it
\* and the run ends with the exception.
ReadNext ==
    /\ pc = "next"
    /\ IF pos < filenames[fidx].len
       THEN /\ \E r \in RecordsAt(filenames[fidx], pos + 1) : rec' = r
            /\ pos' = pos + 1
            /\ consumed' = consumed + 1
            /\ pc' = "account"
            /\ UNCHANGED err
       ELSE /\ err' = "StopIteration"
            /\ pc' = "aborted"
            /\ UNCHANGED <<rec, pos, consumed>>
    /\ UNCHANGED <<filenames, nlimit, fidx, ti, tv, num_records, i, out, base>>

\* Line 47: account_rec_native(rec), then back to the top of the loop.
Account ==
    /\ pc = "account"
    /\ ti' = account_rec_native(rec, ti, tv).ti
    /\ tv' = account_rec_native(rec, ti, tv).tv
    /\ pc' = "incr"
    /\ UNCHANGED <<filenames, nlimit, fidx, num_records, i, pos, rec, out, err, base, consumed>>

\* Line 65: print_totals(None).
Final ==
    /\ pc = "final"
    /\ print_totals(None, "done")
    /\ UNCHANGED <<filenames, nlimit, fidx, ti, tv, num_records, i, pos, rec, base, consumed>>

Next ==
    \/ ParseArgs
    \/ ForNext
    \/ Open
    \/ Incr
    \/ CheckReport
    \/ CheckLimit
    \/ ReadNext
    \/ Account
    \/ Final

Spec == Init /\ [][Next]_vars

\* The interpreter runs the next statement as long as there is one.
FairSpec == Spec /\ WF_vars(Next)

\* ------------------------------------------------------ derived quantities
\* The statements of process_file's loop.
LoopPcs == {"incr", "check_report", "check_limit", "next", "account"}

\* Records of the current file already passed to account_rec_native.
Classified == IF pc = "account" THEN pos - 1 ELSE pos

\* Positions in out of the periodic progress lines.
ProgressAt == {k \in DOMAIN out : out[k].kind = "progress"}

\* ------------------------------------------------------------------ claims

\* C1: once every file has been processed, total_records (num_records)
\* equals the number of records read from the record source.
C1_TotalEqualsRead ==
    pc \in {"final", "done"} => num_records = consumed

\* C2: for a non-empty list of files and any nlimit, reaching the end of a
\* file ends that file's loop normally (back to the for loop), and the run
\* eventually has finished every file in the order given and printed the
\* final summary line exactly once, as the last line.
C2_EventuallyFinalSummary ==
    /\ [][(pc = "next" /\ pos >= filenames[fidx].len) => pc' = "for"]_vars
    /\ <>(\/ Len(filenames) = 0
          \/ /\ pc = "done"
             /\ fidx = Len(filenames)
             /\ SelectSeq(out, LAMBDA l : l.kind = "processing")
                   = [k \in 1..Len(filenames) |-> ProcessingLine(k)]
             /\ Cardinality({k \in DOMAIN out : out[k].kind = "final"}) = 1
             /\ out[Len(out)].kind = "final")

\* C3: a report (periodic or final) requested while transversions = 0 does
\* not abort the run: a line is printed, the counters are unchanged and the
\* run continues.
C3_ReportSurvivesZeroTv ==
    [][(/\ tv = 0
        /\ \/ pc = "check_report" /\ i % ReportEvery = 0
           \/ pc = "final")
       => /\ err' = NoErr
          /\ pc' # "aborted"
          /\ Len(out') = Len(out) + 1
          /\ <<ti', tv', num_records'>> = <<ti, tv, num_records>>]_vars

\* C4: accounting a record with alleles (r, a) adds one to transitions iff
\* {r, a} is {A,G} or {C,T}, adds one to transversions iff r and a are
\* distinct single bases that are not a transition pair, and changes neither
\* counter otherwise (r = a, a length other than 1, a non-ACGT symbol).
C4_AccountFollowsClassifier ==
    [][pc = "account" =>
        LET single == Len(rec.REF) = 1 /\ Len(rec.ALT) = 1
            acgt == single /\ rec.REF[1] \in Bases /\ rec.ALT[1] \in Bases
            pair == {rec.REF[1], rec.ALT[1]}
            transition == acgt /\ pair \in {{"A", "G"}, {"C", "T"}}
            transversion == acgt /\ rec.REF # rec.ALT /\ ~transition
        IN  /\ ti' = ti + (IF transition THEN 1 ELSE 0)
            /\ tv' = tv + (IF transversion THEN 1 ELSE 0)]_vars

\* C5: in every reachable state, transitions + transversions <= total_records.
C5_ClassifiedAtMostTotal ==
    ti + tv <= num_records

C5_Witness ==
    /\ pc = "incr"
    /\ ti > 0
    /\ tv > 0
    /\ ti + tv = num_records

\* C6: a progress line printed at record index i of a file shows counters
\* that include the classification of all i records of the file; for one
\* file of 1000 SNPs alternating (A,G), (G,T) the line at record 1000 shows
\* transitions = 500 and transversions = 500.
C6_ReportIncludesRecord ==
    [][(pc = "check_report" /\ i % ReportEvery = 0 /\ Len(out') > Len(out))
       => /\ Classified = i
          /\ (filenames = <<[kind |-> "alt", len |-> 1000]>> /\ i = 1000)
                => (out'[Len(out')].ti = 500 /\ out'[Len(out')].tv = 500)]_vars

\* C7 as stated: a progress line is printed exactly when the count of
\* records processed, cumulative over all files of the run, reaches a
\* multiple of 1000 (looked at where the report itself does not fail).
C7_CumulativeProgress ==
    [][(pc = "check_report" /\ tv # 0)
       => (Len(out') > Len(out) <=> num_records % ReportEvery = 0)]_vars

\* C7 amended: a progress line is printed exactly when the per-file index i
\* of process_file reaches a multiple of 1000 with tv non-zero, and by no
\* other statement; it shows that per-file i as num records and the
\* cumulative num_records as tot.
C7_PerFileProgress ==
    [][/\ pc = "check_report"
          => /\ Len(out') > Len(out) <=> (i % ReportEvery = 0 /\ tv # 0)
             /\ Len(out') > Len(out)
                   => /\ out' = Append(out, out'[Len(out')])
                      /\ out'[Len(out')].kind = "progress"
                      /\ out'[Len(out')].i = i
                      /\ out'[Len(out')].tot = num_records
       /\ pc # "check_report"
          => \A k \in DOMAIN out' : out'[k].kind = "progress" => k \in ProgressAt]_vars

\* A progress line of a later file: its num records is not its tot.
C7_Witness ==
    \E k \in ProgressAt : out[k].i # out[k].tot

\* C8 as stated: with nlimit = N, the number of records of a file passed to
\* account_rec_native never exceeds N, and once the limit is reached no
\* further record of the file is read or classified.
C8_LimitBoundsClassified ==
    (nlimit # None /\ pc \in LoopPcs)
       => /\ Classified <= nlimit[1]
          /\ pc \in {"next", "account"} => i < nlimit[1]

\* C8 amended: the number classified never exceeds max(N, 0).
C8_LimitBoundsClassifiedNonNeg ==
    (nlimit # None /\ pc \in LoopPcs)
       => /\ Classified <= (IF nlimit[1] < 0 THEN 0 ELSE nlimit[1])
          /\ pc \in {"next", "account"} => i < nlimit[1]

\* The limit was reached after records had been classified.
C8_Witness ==
    /\ nlimit # None
    /\ pc = "for"
    /\ fidx >= 1
    /\ pos >= 1
    /\ i >= nlimit[1]

\* C9: accounting a record that is not a simple SNP leaves transitions and
\* transversions unchanged and raises nothing; the record has been counted
\* once in total_records (the count of this file equals its records read)
\* and the loop goes on to its next iteration.
C9_NonSnpSkipped ==
    [][(pc = "account" /\ ~is_snp(rec))
       => /\ ti' = ti
          /\ tv' = tv
          /\ err' = NoErr
          /\ num_records' = num_records
          /\ num_records - base = pos
          /\ pc' = "incr"]_vars

\* A non-SNP record has been accounted.
C9_Witness ==
    /\ pc = "incr"
    /\ pos = 1
    /\ ~is_snp(rec)
    /\ ti = 0
    /\ tv = 0
    /\ num_records = 1

\* C10: with nlimit = N >= 1 and a file of at least N - 1 records,
\* process_file returns normally, having read and classified exactly N - 1
\* records and increased num_records by exactly N.
C10_LimitedFileReturns ==
    [][(/\ nlimit # None
        /\ pc \in LoopPcs
        /\ nlimit[1] >= 1
        /\ filenames[fidx].len >= nlimit[1] - 1)
       => /\ pc' # "aborted"
          /\ pc' = "for" => (pos = nlimit[1] - 1 /\ num_records - base = nlimit[1])]_vars

====
